---------------------------- MODULE Spec2Model ----------------------------
(***************************************************************************)
(* Flow-dispatch engine of LibSagerNetCore (type Tun2ray): the TCP, UDP    *)
(* and ping flow callbacks, the NAT table, the per-uid traffic statistics, *)
(* the single-flight table of condition variables, the connection list     *)
(* and Close().  Every callback invocation is a task; one step of a task   *)
(* is one access to shared state (a sync.Map operation, an atomic, a       *)
(* mutex or condition-variable operation, a conn operation).               *)
(***************************************************************************)
EXTENDS Integers, Sequences, FiniteSets, TLC

(* ------------------------------ bounds -------------------------------- *)

\* Number of callback invocations (NewConnection / NewPacket / NewPingPacket).
NumTasks == 2

\* Largest value time.Now().Unix() takes in the model (it is never 0).
MaxTime == 1

\* Most bytes the flows of one uid write, and read, in the byte model.
MaxBytes == 2

Tasks == 1..NumTasks
Times == 1..MaxTime

(* ------------------------- program constants -------------------------- *)

\* uids below this bound collapse into the system bucket.
FirstAppUid == 10000

\* The system bucket.
SystemUid == 1000

\* uint16(u) keeps u modulo this.
Uint16Range == 65536

\* os.Getuid() of the process.
OwnUid == 10001

\* Values DumpUid returns in the flow model.
RawUids == {42, OwnUid}

\* source.NetAddr() of the UDP flows, and "<src>-<dst>" of the ping flows.
UdpKeys == {"10.0.0.1:5000"}
PingKeys == {"10.0.0.1-8.8.8.8"}
NatKeys == UdpKeys \cup PingKeys

None == 0

(* ----------------------------- pure code ------------------------------ *)

\* uint16(u)
Uint16(u) == u % Uint16Range

\* if uid < 10000 { uid = 1000 }
NormalizeUid(u16) == IF u16 < FirstAppUid THEN SystemUid ELSE u16

\* self = uid > 0 && int(uid) == os.Getuid()   (before the collapse)
IsSelf(u16) == u16 > 0 /\ u16 = OwnUid

\* The uid block of NewConnection (lines 226-252) and of NewPacket (lines
\* 385-421): what it leaves in uid, self and inbound.Uid when DumpUid is
\* called or not, fails or not, and returns u.
UidBlock(called, err, u) ==
    IF called /\ ~err
    THEN [uid |-> NormalizeUid(Uint16(u)), self |-> IsSelf(Uint16(u)),
          inboundUid |-> NormalizeUid(Uint16(u))]
    ELSE [uid |-> 0, self |-> FALSE, inboundUid |-> 0]

\* Values DumpUid returns in the uid model: the edges of the collapse and
\* of uint16, uids of a secondary Android user, and the largest integer the
\* model checker holds (uint32 goes on to 4294967295).
DumpedUids == {0, 1, 42, 999, 1000, 1001, 9999, 10000, 10001, 10042, 65535,
               65536, 65578, 75536, 75578, 1010042, 2147483647}

\* The uids the appStats table is keyed by: 0 when DumpUid failed.
Uids == {UidBlock(TRUE, e, u).uid : e \in BOOLEAN, u \in RawUids}

\* sync.NewCond(&sync.Mutex{}): the cond task t makes for its natKey, and
\* the one it makes for its uid.
CondNat(t) == t
CondUid(t) == NumTasks + t
Conds == {CondNat(t) : t \in Tasks} \cup {CondUid(t) : t \in Tasks}

\* The configurations NewTun2ray is given: each flag is set in one and clear
\* in the other.  With trafficStats set a flow of the process itself or to
\* the router still runs without statistics, and a ping creator fails or
\* not by the router's answer whatever the default outbound is.
Configs ==
    {[trafficStats |-> TRUE, dumpUid |-> TRUE,
      defaultOutboundForPing |-> FALSE],
     [trafficStats |-> FALSE, dumpUid |-> FALSE,
      defaultOutboundForPing |-> TRUE]}

ZeroStats == [tcpConn |-> 0, udpConn |-> 0, tcpConnTotal |-> 0,
              udpConnTotal |-> 0, deactivateAt |-> 0, uplink |-> 0,
              downlink |-> 0]

NoCloses == [shutdown |-> 0, handler |-> 0, send |-> 0]

\* The addresses a resolver answers with, and its answers: every list of
\* distinct addresses, the empty one included.
Ips == {"192.0.2.1", "192.0.2.2"}
IpLists == {<<>>} \cup {<<a>> : a \in Ips}
               \cup {s \in Ips \X Ips : s[1] # s[2]}

\* The files of the xz model: an archive, the file unxz decompresses it
\* to, and another destination.
Files == {"geo.xz", "geo.xz.tmp", "geo.dat"}

\* path + ".tmp"
TmpOf(path) == IF path = "geo.xz" THEN "geo.xz.tmp" ELSE path

\* The sockets of one Dial: attempt i gets fd i.
Fds == 1..Cardinality(Ips)

\* A socket not yet made: state is "none", "open" or "closed"; protect is
\* "none" before Protect is called, then its answer; connect is "none"
\* before unix.Connect is called, then "ok" or "failed".
NoSocket == [state |-> "none", protect |-> "none", connect |-> "none"]

(* ------------------------------- state -------------------------------- *)

VARIABLES
    trafficStats,   \* Tun2ray.trafficStats
    dumpUid,        \* Tun2ray.dumpUid
    defaultOutboundForPing, \* TRUE iff Tun2ray.defaultOutboundForPing != nil
    udpTable,       \* natKey -> conn (None: absent)
    appStats,       \* uid -> *appStats, named by its creator (None: absent)
    lockTable,      \* key -> *sync.Cond (None: absent); .nat holds the string
                    \* keys (natKey), .uid the uint16 keys: they never collide
    connections,    \* the list, front first; a conn is named by its task
    connectionsLock,\* "free" or "Close"
    closePc,        \* Close(): "idle", "iter", "done"
    closeItem,      \* Close(): index of item in connections
    closes,         \* conn -> how often Close was called on it, by whom
    wlog,           \* conn -> payloads WriteTo delivered, in order
    statsObj,       \* *appStats -> its fields
    condL,          \* cond -> holder of cond.L (None: unlocked)
    pc,             \* task -> where it is
    kind,           \* task -> "tcp", "udp", "ping" ("" before the call)
    natKey,         \* task -> natKey of the call
    uid,            \* task -> local uid
    eligible,       \* task -> t.trafficStats && !self && !isDns
    stats,          \* task -> local stats (*appStats or None)
    cond,           \* task -> local cond (natKey) it waits on or made
    scond,          \* task -> local cond (uid) of the stats block
    tmp,            \* task -> result of the deferred atomic.AddInt32
    sconn,          \* task -> conn loaded by the task's sendTo()
    ret,            \* task -> NewPingPacket's result: "none", "true", "false"
    apc,            \* task -> the `go sendTo()` goroutine it started
    aconn,          \* task -> conn loaded by that goroutine
    pump,           \* task -> the reverse-path pump on the task's conn
    dials,          \* natKey -> number of dialUDP / handleUDP calls
    natDeleted,     \* natKey -> udpTable.Delete(natKey) has been called
    installs,       \* uid -> number of appStats.Store calls
    closerCloses,   \* task -> number of closer.Close calls
    atClose,        \* the conns in the list when Close() locked it
    dumpU,          \* uid model: the value DumpUid returns
    dumpErr,        \* uid model: DumpUid returns an error
    uidHandler,     \* uid model: "none", or the handler whose uid block ran
    inboundUid,     \* uid model: inbound.Uid after the uid block
    dPc,            \* dialer: where Dial is
    dNet,           \* dialer: destination.Network, "tcp" or "udp"
    dIps,           \* dialer: ips, in resolver order
    dI,             \* dialer: the loop index, from 1
    dFd,            \* dialer: fd of the attempt under way (None: none)
    dLocal,         \* dialer: conn inside dial (None: nil)
    dConn,          \* dialer: Dial's result conn (None: nil)
    dErr,           \* dialer: Dial's result err ("nil": nil)
    dLog,           \* dialer: the attempts made: ip, conn and err of each
    fds,            \* dialer: fd -> what happened to the socket
    xPc,            \* xz: where the call is
    xFn,            \* xz: the function called, "Unxz" or "unxz"
    xArchive,       \* xz: Unxz's archive
    xPath,          \* xz: Unxz's path
    xErr,           \* xz: the error returned ("nil": nil)
    fs,             \* xz: file name -> content of the file
    xPrior,         \* xz: content of the call's destination at the call
    flowBytes       \* byte model: uid -> bytes written and read on the
                    \* conns of the uid's flows that count

cfgVars == <<trafficStats, dumpUid, defaultOutboundForPing>>
tableVars == <<udpTable, appStats, lockTable>>
listVars == <<connections, connectionsLock, closePc, closeItem>>
connVars == <<closes, wlog>>
taskVars == <<pc, kind, natKey, uid, eligible, stats, cond, scond, tmp, sconn,
              ret>>
goVars == <<apc, aconn, pump>>
ghostVars == <<dials, natDeleted, installs, closerCloses, atClose>>
uidVars == <<dumpU, dumpErr, uidHandler, inboundUid>>
dialVars == <<dPc, dNet, dIps, dI, dFd, dLocal, dConn, dErr, dLog, fds>>

\* The variables of the models beside the flow model.
xzVars == <<xPc, xFn, xArchive, xPath, xErr, fs, xPrior>>
byteVars == <<flowBytes>>
auxVars == <<uidVars, dialVars, xzVars, byteVars>>

flowVars == <<tableVars, listVars, connVars, statsObj, condL, taskVars,
              goVars, ghostVars>>

vars == <<cfgVars, auxVars, flowVars>>

\* The state NewTun2ray returns: empty tables, an empty list, no flow.
InitFlow ==
    /\ udpTable = [k \in NatKeys |-> None]
    /\ appStats = [u \in Uids |-> None]
    /\ lockTable = [nat |-> [k \in NatKeys |-> None],
                    uid |-> [u \in Uids |-> None]]
    /\ connections = <<>>
    /\ connectionsLock = "free"
    /\ closePc = "idle"
    /\ closeItem = 0
    /\ closes = [h \in Tasks |-> NoCloses]
    /\ wlog = [h \in Tasks |-> <<>>]
    /\ statsObj = [o \in Tasks |-> ZeroStats]
    /\ condL = [c \in Conds |-> None]
    /\ pc = [t \in Tasks |-> "idle"]
    /\ kind = [t \in Tasks |-> ""]
    /\ natKey = [t \in Tasks |-> ""]
    /\ uid = [t \in Tasks |-> 0]
    /\ eligible = [t \in Tasks |-> FALSE]
    /\ stats = [t \in Tasks |-> None]
    /\ cond = [t \in Tasks |-> None]
    /\ scond = [t \in Tasks |-> None]
    /\ tmp = [t \in Tasks |-> 0]
    /\ sconn = [t \in Tasks |-> None]
    /\ ret = [t \in Tasks |-> "none"]
    /\ apc = [t \in Tasks |-> "none"]
    /\ aconn = [t \in Tasks |-> None]
    /\ pump = [t \in Tasks |-> "none"]
    /\ dials = [k \in NatKeys |-> 0]
    /\ natDeleted = [k \in NatKeys |-> FALSE]
    /\ installs = [u \in Uids |-> 0]
    /\ closerCloses = [t \in Tasks |-> 0]
    /\ atClose = {}

\* No uid block has run.
InitUidIdle ==
    /\ dumpU = 0
    /\ dumpErr = FALSE
    /\ uidHandler = "none"
    /\ inboundUid = 0

\* No Dial has been called.
InitDialIdle ==
    /\ dPc = "idle"
    /\ dNet = "tcp"
    /\ dIps = <<>>
    /\ dI = 0
    /\ dFd = None
    /\ dLocal = None
    /\ dConn = None
    /\ dErr = "nil"
    /\ dLog = <<>>
    /\ fds = [f \in Fds |-> NoSocket]

\* No Unxz or unxz has been called.
InitXzIdle ==
    /\ xPc = "idle"
    /\ xFn = ""
    /\ xArchive = ""
    /\ xPath = ""
    /\ xErr = "nil"
    /\ fs = [f \in Files |-> "absent"]
    /\ xPrior = "absent"

\* No byte has gone through a conn.
InitBytesIdle == flowBytes = [u \in Uids |-> [up |-> 0, down |-> 0]]

Init ==
    /\ \E c \in Configs :
        /\ trafficStats = c.trafficStats
        /\ dumpUid = c.dumpUid
        /\ defaultOutboundForPing = c.defaultOutboundForPing
    /\ InitFlow
    /\ InitUidIdle
    /\ InitDialIdle
    /\ InitXzIdle
    /\ InitBytesIdle


(* ------------------------------ helpers ------------------------------- *)

Closed(h) == closes[h].shutdown + closes[h].handler + closes[h].send > 0

\* list.Remove(element): the element of task t's conn.
RemoveElement(list, t) == SelectSeq(list, LAMBDA x : x # t)

InList(h) == \E i \in 1..Len(connections) : connections[i] = h

\* cond.Broadcast(): every task inside cond.Wait() on c is made runnable.
Broadcast(c, pcs) ==
    [x \in Tasks |->
        IF pcs[x] = "natWaiting" /\ cond[x] = c THEN "natWoken"
        ELSE IF pcs[x] = "statsWaiting" /\ scond[x] = c THEN "statsWoken"
        ELSE pcs[x]]

\* What the uid block of a handler leaves in uid and self, over every answer
\* of DumpUid (an error leaves the zero values).
DumpUidOutcomes ==
    {UidBlock(dumpUid \/ trafficStats, e, u) : e \in BOOLEAN, u \in RawUids}

\* The calls are numbered in the order they arrive.
NextCall(t) == pc[t] = "idle" /\ \A s \in 1..(t - 1) : pc[s] # "idle"

\* A return of NewConnection / NewPacket: the deferred stats function runs
\* when the stats block was entered.
AfterReturn(t) == IF stats[t] # None THEN "deferAdd" ELSE "done"

(* --------------------- NewConnection: lines 213-328 ------------------- *)

\* The call, up to the stats block: inbound, isDns, the uid block.
NewConnection(t) ==
    /\ NextCall(t)
    /\ closePc = "idle"
    /\ \E isDns \in BOOLEAN, d \in DumpUidOutcomes :
        LET el == trafficStats /\ ~d.self /\ ~isDns IN
        /\ kind' = [kind EXCEPT ![t] = "tcp"]
        /\ eligible' = [eligible EXCEPT ![t] = el]
        /\ uid' = [uid EXCEPT ![t] = IF el THEN d.uid ELSE 0]
        /\ pc' = [pc EXCEPT ![t] = IF el THEN "statsLoad" ELSE "register"]
    /\ UNCHANGED <<cfgVars, auxVars, tableVars, listVars, connVars, statsObj,
                   condL, natKey, stats, cond, scond, tmp, sconn, ret, goVars,
                   ghostVars>>

(* ------- the stats block: lines 270-302 (TCP), 445-477 (UDP) ---------- *)

\* t.appStats.Load(uid)
StatsLoad(t) ==
    /\ pc[t] = "statsLoad"
    /\ IF appStats[uid[t]] # None
       THEN /\ stats' = [stats EXCEPT ![t] = appStats[uid[t]]]
            /\ pc' = [pc EXCEPT ![t] = "statsAdd"]
       ELSE /\ pc' = [pc EXCEPT ![t] = "statsLoadOrStore"]
            /\ UNCHANGED stats
    /\ UNCHANGED <<cfgVars, auxVars, tableVars, listVars, connVars, statsObj,
                   condL, kind, natKey, uid, eligible, cond, scond, tmp,
                   sconn, ret, goVars, ghostVars>>

\* t.lockTable.LoadOrStore(uid, sync.NewCond(&sync.Mutex{}))
StatsLoadOrStore(t) ==
    /\ pc[t] = "statsLoadOrStore"
    /\ IF lockTable.uid[uid[t]] # None
       THEN /\ scond' = [scond EXCEPT ![t] = lockTable.uid[uid[t]]]
            /\ pc' = [pc EXCEPT ![t] = "statsLock"]
            /\ UNCHANGED lockTable
       ELSE /\ lockTable' = [lockTable EXCEPT !.uid[uid[t]] = CondUid(t)]
            /\ scond' = [scond EXCEPT ![t] = CondUid(t)]
            /\ pc' = [pc EXCEPT ![t] = "statsStore"]
    /\ UNCHANGED <<cfgVars, auxVars, udpTable, appStats, listVars, connVars,
                   statsObj, condL, kind, natKey, uid, eligible, stats, cond,
                   tmp, sconn, ret, goVars, ghostVars>>

\* cond.L.Lock()
StatsLock(t) ==
    /\ pc[t] = "statsLock"
    /\ condL[scond[t]] = None
    /\ condL' = [condL EXCEPT ![scond[t]] = t]
    /\ pc' = [pc EXCEPT ![t] = "statsWait"]
    /\ UNCHANGED <<cfgVars, auxVars, tableVars, listVars, connVars, statsObj,
                   kind, natKey, uid, eligible, stats, cond, scond, tmp,
                   sconn, ret, goVars, ghostVars>>

\* cond.Wait(): joins the notify list and unlocks cond.L; it runs again
\* only after a Broadcast that comes later.
StatsWait(t) ==
    /\ pc[t] = "statsWait"
    /\ condL' = [condL EXCEPT ![scond[t]] = None]
    /\ pc' = [pc EXCEPT ![t] = "statsWaiting"]
    /\ UNCHANGED <<cfgVars, auxVars, tableVars, listVars, connVars, statsObj,
                   kind, natKey, uid, eligible, stats, cond, scond, tmp,
                   sconn, ret, goVars, ghostVars>>

\* cond.Wait() returning: cond.L is locked again.
StatsWoken(t) ==
    /\ pc[t] = "statsWoken"
    /\ condL[scond[t]] = None
    /\ condL' = [condL EXCEPT ![scond[t]] = t]
    /\ pc' = [pc EXCEPT ![t] = "statsReload"]
    /\ UNCHANGED <<cfgVars, auxVars, tableVars, listVars, connVars, statsObj,
                   kind, natKey, uid, eligible, stats, cond, scond, tmp,
                   sconn, ret, goVars, ghostVars>>

\* iStats, exists = t.appStats.Load(uid); panic when it is missing.
StatsReload(t) ==
    /\ pc[t] = "statsReload"
    /\ IF appStats[uid[t]] = None
       THEN /\ pc' = [pc EXCEPT ![t] = "panic"]
            /\ UNCHANGED stats
       ELSE /\ stats' = [stats EXCEPT ![t] = appStats[uid[t]]]
            /\ pc' = [pc EXCEPT ![t] = "statsUnlock"]
    /\ UNCHANGED <<cfgVars, auxVars, tableVars, listVars, connVars, statsObj,
                   condL, kind, natKey, uid, eligible, cond, scond, tmp,
                   sconn, ret, goVars, ghostVars>>

\* cond.L.Unlock()
StatsUnlock(t) ==
    /\ pc[t] = "statsUnlock"
    /\ condL' = [condL EXCEPT ![scond[t]] = None]
    /\ scond' = [scond EXCEPT ![t] = None]
    /\ pc' = [pc EXCEPT ![t] = "statsAdd"]
    /\ UNCHANGED <<cfgVars, auxVars, tableVars, listVars, connVars, statsObj,
                   kind, natKey, uid, eligible, stats, cond, tmp, sconn, ret,
                   goVars, ghostVars>>

\* StatsStore with the Store left out: the creator keeps its fresh object
\* to itself.
StatsStoreLeftOut(t) ==
    /\ pc[t] = "statsStore"
    /\ stats' = [stats EXCEPT ![t] = t]
    /\ pc' = [pc EXCEPT ![t] = "statsDelete"]
    /\ UNCHANGED <<cfgVars, auxVars, tableVars, listVars, connVars, statsObj,
                   condL, kind, natKey, uid, eligible, cond, scond, tmp,
                   sconn, ret, goVars, ghostVars>>

\* stats = &appStats{}; t.appStats.Store(uid, stats)
StatsStore(t) ==
    /\ pc[t] = "statsStore"
    /\ stats' = [stats EXCEPT ![t] = t]
    /\ appStats' = [appStats EXCEPT ![uid[t]] = t]
    /\ installs' = [installs EXCEPT ![uid[t]] = @ + 1]
    /\ pc' = [pc EXCEPT ![t] = "statsDelete"]
    /\ UNCHANGED <<cfgVars, auxVars, udpTable, lockTable, listVars, connVars,
                   statsObj, condL, kind, natKey, uid, eligible, cond, scond,
                   tmp, sconn, ret, goVars, dials, natDeleted, closerCloses,
                   atClose>>

\* t.lockTable.Delete(uid)
StatsDelete(t) ==
    /\ pc[t] = "statsDelete"
    /\ lockTable' = [lockTable EXCEPT !.uid[uid[t]] = None]
    /\ pc' = [pc EXCEPT ![t] = "statsBroadcast"]
    /\ UNCHANGED <<cfgVars, auxVars, udpTable, appStats, listVars, connVars,
                   statsObj, condL, kind, natKey, uid, eligible, stats, cond,
                   scond, tmp, sconn, ret, goVars, ghostVars>>

\* cond.Broadcast()
StatsBroadcast(t) ==
    /\ pc[t] = "statsBroadcast"
    /\ pc' = Broadcast(scond[t], [pc EXCEPT ![t] = "statsAdd"])
    /\ scond' = [scond EXCEPT ![t] = None]
    /\ UNCHANGED <<cfgVars, auxVars, tableVars, listVars, connVars, statsObj,
                   condL, kind, natKey, uid, eligible, stats, cond, tmp,
                   sconn, ret, goVars, ghostVars>>

\* atomic.AddInt32(&stats.tcpConn, 1); atomic.AddUint32(&stats.tcpConnTotal, 1)
\* (udpConn, udpConnTotal in NewPacket).  Nothing reads the totals: the two
\* atomics are one step.
StatsAdd(t) ==
    /\ pc[t] = "statsAdd"
    /\ statsObj' = IF kind[t] = "tcp"
                   THEN [statsObj EXCEPT ![stats[t]].tcpConn = @ + 1,
                                         ![stats[t]].tcpConnTotal = @ + 1]
                   ELSE [statsObj EXCEPT ![stats[t]].udpConn = @ + 1,
                                         ![stats[t]].udpConnTotal = @ + 1]
    /\ pc' = [pc EXCEPT ![t] = "statsClear"]
    /\ UNCHANGED <<cfgVars, auxVars, tableVars, listVars, connVars, condL,
                   kind, natKey, uid, eligible, stats, cond, scond, tmp,
                   sconn, ret, goVars, ghostVars>>

\* atomic.StoreInt64(&stats.deactivateAt, 0); the defer is registered and
\* conn is wrapped.
StatsClear(t) ==
    /\ pc[t] = "statsClear"
    /\ statsObj' = [statsObj EXCEPT ![stats[t]].deactivateAt = 0]
    /\ pc' = [pc EXCEPT ![t] = "register"]
    /\ UNCHANGED <<cfgVars, auxVars, tableVars, listVars, connVars, condL,
                   kind, natKey, uid, eligible, stats, cond, scond, tmp,
                   sconn, ret, goVars, ghostVars>>

\* The deferred function, first operand:
\* atomic.AddInt32(&stats.tcpConn, -1)  /  ...udpConn
DeferAdd(t) ==
    /\ pc[t] = "deferAdd"
    /\ LET o == stats[t] IN
       IF kind[t] = "tcp"
       THEN /\ statsObj' = [statsObj EXCEPT ![o].tcpConn = @ - 1]
            /\ tmp' = [tmp EXCEPT ![t] = statsObj[o].tcpConn - 1]
       ELSE /\ statsObj' = [statsObj EXCEPT ![o].udpConn = @ - 1]
            /\ tmp' = [tmp EXCEPT ![t] = statsObj[o].udpConn - 1]
    /\ pc' = [pc EXCEPT ![t] = "deferLoad"]
    /\ UNCHANGED <<cfgVars, auxVars, tableVars, listVars, connVars, condL,
                   kind, natKey, uid, eligible, stats, cond, scond, sconn,
                   ret, goVars, ghostVars>>

\* The deferred function, second operand and the test:
\* ... + atomic.LoadInt32(&stats.udpConn) == 0  /  ...tcpConn
DeferLoad(t) ==
    /\ pc[t] = "deferLoad"
    /\ LET other == IF kind[t] = "tcp" THEN statsObj[stats[t]].udpConn
                                       ELSE statsObj[stats[t]].tcpConn
       IN pc' = [pc EXCEPT ![t] = IF tmp[t] + other = 0 THEN "deferStamp"
                                                        ELSE "done"]
    /\ tmp' = [tmp EXCEPT ![t] = 0]
    /\ UNCHANGED <<cfgVars, auxVars, tableVars, listVars, connVars, statsObj,
                   condL, kind, natKey, uid, eligible, stats, cond, scond,
                   sconn, ret, goVars, ghostVars>>

\* atomic.StoreInt64(&stats.deactivateAt, time.Now().Unix())
DeferStamp(t) ==
    /\ pc[t] = "deferStamp"
    /\ \E now \in Times :
        statsObj' = [statsObj EXCEPT ![stats[t]].deactivateAt = now]
    /\ pc' = [pc EXCEPT ![t] = "done"]
    /\ UNCHANGED <<cfgVars, auxVars, tableVars, listVars, connVars, condL,
                   kind, natKey, uid, eligible, stats, cond, scond, tmp,
                   sconn, ret, goVars, ghostVars>>

(* --------------- registration: lines 304-306, 479-481, 588-590 -------- *)

\* connectionsLock.Lock(); element := connections.PushBack(conn); Unlock()
Register(t) ==
    /\ pc[t] = "register"
    /\ connectionsLock = "free"
    /\ connections' = Append(connections, t)
    /\ pc' = [pc EXCEPT ![t] = IF kind[t] = "tcp" THEN "tcpDispatch"
                                                  ELSE "natStore"]
    /\ UNCHANGED <<cfgVars, auxVars, tableVars, connectionsLock, closePc,
                   closeItem, connVars, statsObj, condL, kind, natKey, uid,
                   eligible, stats, cond, scond, tmp, sconn, ret, goVars,
                   ghostVars>>

(* ----------------- NewConnection, continued: lines 308-328 ------------ *)

\* err := t.v2ray.dispatcher.DispatchLink(ctx, destination, link)
TcpDispatch(t) ==
    /\ pc[t] = "tcpDispatch"
    /\ \E ok \in BOOLEAN :
        pc' = [pc EXCEPT ![t] = IF ok THEN "tcpCopy" ELSE AfterReturn(t)]
    /\ UNCHANGED <<cfgVars, auxVars, tableVars, listVars, connVars, statsObj,
                   condL, kind, natKey, uid, eligible, stats, cond, scond,
                   tmp, sconn, ret, goVars, ghostVars>>

\* task.Run(buf.Copy(...)) ends because conn was closed under it.
TcpCopyClosed(t) ==
    /\ pc[t] = "tcpCopy"
    /\ Closed(t)
    /\ pc' = [pc EXCEPT ![t] = "tcpClose"]
    /\ UNCHANGED <<cfgVars, auxVars, tableVars, listVars, connVars, statsObj,
                   condL, kind, natKey, uid, eligible, stats, cond, scond,
                   tmp, sconn, ret, goVars, ghostVars>>

\* task.Run(buf.Copy(...)) ends by itself: end of stream or an I/O error.
TcpCopyEnds(t) ==
    /\ pc[t] = "tcpCopy"
    /\ ~Closed(t)
    /\ pc' = [pc EXCEPT ![t] = "tcpClose"]
    /\ UNCHANGED <<cfgVars, auxVars, tableVars, listVars, connVars, statsObj,
                   condL, kind, natKey, uid, eligible, stats, cond, scond,
                   tmp, sconn, ret, goVars, ghostVars>>

\* comm.CloseIgnore(conn, link.Reader, link.Writer), either order
TcpClose(t) ==
    /\ pc[t] = "tcpClose"
    /\ closes' = [closes EXCEPT ![t].handler = @ + 1]
    /\ pc' = [pc EXCEPT ![t] = "tcpRemove"]
    /\ UNCHANGED <<cfgVars, auxVars, tableVars, listVars, wlog, statsObj,
                   condL, kind, natKey, uid, eligible, stats, cond, scond,
                   tmp, sconn, ret, goVars, ghostVars>>

\* connectionsLock.Lock(); connections.Remove(element); Unlock(); return
TcpRemove(t) ==
    /\ pc[t] = "tcpRemove"
    /\ connectionsLock = "free"
    /\ connections' = RemoveElement(connections, t)
    /\ pc' = [pc EXCEPT ![t] = AfterReturn(t)]
    /\ UNCHANGED <<cfgVars, auxVars, tableVars, connectionsLock, closePc,
                   closeItem, connVars, statsObj, condL, kind, natKey, uid,
                   eligible, stats, cond, scond, tmp, sconn, ret, goVars,
                   ghostVars>>

(* --------------------------- Close: lines 200-211 --------------------- *)

\* CloseBegin with the loop started one item too far:
\* item := connections.Front().Next()
CloseBeginSkipsFront ==
    /\ closePc = "idle"
    /\ connectionsLock = "free"
    /\ connectionsLock' = "Close"
    /\ closePc' = "iter"
    /\ closeItem' = 2
    /\ atClose' = {connections[i] : i \in 1..Len(connections)}
    /\ UNCHANGED <<cfgVars, auxVars, tableVars, connections, connVars,
                   statsObj, condL, taskVars, goVars, dials, natDeleted,
                   installs, closerCloses>>

\* comm.CloseIgnore(t.dev); connectionsLock.Lock(); item := Front()
CloseBegin ==
    /\ closePc = "idle"
    /\ connectionsLock = "free"
    /\ connectionsLock' = "Close"
    /\ closePc' = "iter"
    /\ closeItem' = 1
    /\ atClose' = {connections[i] : i \in 1..Len(connections)}
    /\ UNCHANGED <<cfgVars, auxVars, tableVars, connections, connVars,
                   statsObj, condL, taskVars, goVars, dials, natDeleted,
                   installs, closerCloses>>

\* common.Close(item.Value); item = item.Next()
CloseItem ==
    /\ closePc = "iter"
    /\ closeItem <= Len(connections)
    /\ closes' = [closes EXCEPT ![connections[closeItem]].shutdown = @ + 1]
    /\ closeItem' = closeItem + 1
    /\ UNCHANGED <<cfgVars, auxVars, tableVars, connections, connectionsLock,
                   closePc, wlog, statsObj, condL, taskVars, goVars,
                   ghostVars>>

\* item == nil: connectionsLock.Unlock()
CloseEnd ==
    /\ closePc = "iter"
    /\ closeItem > Len(connections)
    /\ connectionsLock' = "free"
    /\ closePc' = "done"
    /\ closeItem' = 0
    /\ UNCHANGED <<cfgVars, auxVars, tableVars, connections, connVars,
                   statsObj, condL, taskVars, goVars, ghostVars>>


(* ------ sendTo: lines 338-352 (NewPacket), 519-534 (NewPingPacket) ---- *)

\* Results of conn.WriteTo: an error on a closed conn, either on an open one.
WriteToOutcomes(h) == IF Closed(h) THEN {FALSE} ELSE {TRUE, FALSE}

\* Where a task goes when its sendTo() has returned true.
AfterSendTrue(t) ==
    IF pc[t] \in {"retryLoad", "retryWrite", "retryClose"} THEN "natUnlock"
    ELSE IF kind[t] = "udp" THEN "closer"
    ELSE "done"

\* NewPingPacket's result after a step that makes it return true.
RetTrue(t, next) ==
    IF kind[t] = "ping" /\ next = "done" THEN [ret EXCEPT ![t] = "true"]
    ELSE ret

\* iConn, ok := t.udpTable.Load(natKey); if !ok { return false }
SendLoad(t) ==
    /\ pc[t] \in {"fastLoad", "retryLoad"}
    /\ LET c == udpTable[natKey[t]] IN
       IF c = None
       THEN /\ pc' = [pc EXCEPT ![t] = IF pc[t] = "fastLoad"
                                       THEN "natLoadOrStore"
                                       ELSE "natUnlock"]
            /\ UNCHANGED sconn
       ELSE /\ sconn' = [sconn EXCEPT ![t] = c]
            /\ pc' = [pc EXCEPT ![t] = IF pc[t] = "fastLoad"
                                       THEN "fastWrite"
                                       ELSE "retryWrite"]
    /\ UNCHANGED <<cfgVars, auxVars, tableVars, listVars, connVars, statsObj,
                   condL, kind, natKey, uid, eligible, stats, cond, scond,
                   tmp, ret, goVars, ghostVars>>

\* _, err := conn.WriteTo(data, ...); without an error sendTo returns true
SendWrite(t) ==
    /\ pc[t] \in {"fastWrite", "retryWrite"}
    /\ \E ok \in WriteToOutcomes(sconn[t]) :
        IF ok
        THEN /\ wlog' = [wlog EXCEPT ![sconn[t]] = Append(@, t)]
             /\ sconn' = [sconn EXCEPT ![t] = None]
             /\ pc' = [pc EXCEPT ![t] = AfterSendTrue(t)]
             /\ ret' = RetTrue(t, AfterSendTrue(t))
        ELSE /\ pc' = [pc EXCEPT ![t] = IF pc[t] = "fastWrite"
                                        THEN "fastClose"
                                        ELSE "retryClose"]
             /\ UNCHANGED <<wlog, sconn, ret>>
    /\ UNCHANGED <<cfgVars, auxVars, tableVars, listVars, closes, statsObj,
                   condL, kind, natKey, uid, eligible, stats, cond, scond,
                   tmp, goVars, ghostVars>>

\* if err != nil { _ = conn.Close() }; return true
SendClose(t) ==
    /\ pc[t] \in {"fastClose", "retryClose"}
    /\ closes' = [closes EXCEPT ![sconn[t]].send = @ + 1]
    /\ sconn' = [sconn EXCEPT ![t] = None]
    /\ pc' = [pc EXCEPT ![t] = AfterSendTrue(t)]
    /\ ret' = RetTrue(t, AfterSendTrue(t))
    /\ UNCHANGED <<cfgVars, auxVars, tableVars, listVars, wlog, statsObj,
                   condL, kind, natKey, uid, eligible, stats, cond, scond,
                   tmp, goVars, ghostVars>>

\* The goroutine of `go sendTo()`: the Load.
GoSendLoad(t) ==
    /\ apc[t] = "load"
    /\ LET c == udpTable[natKey[t]] IN
       IF c = None
       THEN /\ apc' = [apc EXCEPT ![t] = "done"]
            /\ UNCHANGED aconn
       ELSE /\ aconn' = [aconn EXCEPT ![t] = c]
            /\ apc' = [apc EXCEPT ![t] = "write"]
    /\ UNCHANGED <<cfgVars, auxVars, tableVars, listVars, connVars, statsObj,
                   condL, taskVars, pump, ghostVars>>

\* The goroutine of `go sendTo()`: the WriteTo.
GoSendWrite(t) ==
    /\ apc[t] = "write"
    /\ \E ok \in WriteToOutcomes(aconn[t]) :
        IF ok
        THEN /\ wlog' = [wlog EXCEPT ![aconn[t]] = Append(@, t)]
             /\ aconn' = [aconn EXCEPT ![t] = None]
             /\ apc' = [apc EXCEPT ![t] = "done"]
        ELSE /\ apc' = [apc EXCEPT ![t] = "close"]
             /\ UNCHANGED <<wlog, aconn>>
    /\ UNCHANGED <<cfgVars, auxVars, tableVars, listVars, closes, statsObj,
                   condL, taskVars, pump, ghostVars>>

\* The goroutine of `go sendTo()`: the Close after a write error.
GoSendClose(t) ==
    /\ apc[t] = "close"
    /\ closes' = [closes EXCEPT ![aconn[t]].send = @ + 1]
    /\ aconn' = [aconn EXCEPT ![t] = None]
    /\ apc' = [apc EXCEPT ![t] = "done"]
    /\ UNCHANGED <<cfgVars, auxVars, tableVars, listVars, wlog, statsObj,
                   condL, taskVars, pump, ghostVars>>

(* ------- NewPacket: lines 335-371; NewPingPacket: lines 516-551 ------- *)

\* The call: natKey := source.NetAddr(); the first sendTo() follows.
NewPacket(t) ==
    /\ NextCall(t)
    /\ closePc = "idle"
    /\ \E k \in UdpKeys : natKey' = [natKey EXCEPT ![t] = k]
    /\ kind' = [kind EXCEPT ![t] = "udp"]
    /\ pc' = [pc EXCEPT ![t] = "fastLoad"]
    /\ UNCHANGED <<cfgVars, auxVars, tableVars, listVars, connVars, statsObj,
                   condL, uid, eligible, stats, cond, scond, tmp, sconn, ret,
                   goVars, ghostVars>>

\* The call: natKey := fmt.Sprint(source.Address, "-", destination.Address)
NewPingPacket(t) ==
    /\ NextCall(t)
    /\ closePc = "idle"
    /\ \E k \in PingKeys : natKey' = [natKey EXCEPT ![t] = k]
    /\ kind' = [kind EXCEPT ![t] = "ping"]
    /\ pc' = [pc EXCEPT ![t] = "fastLoad"]
    /\ UNCHANGED <<cfgVars, auxVars, tableVars, listVars, connVars, statsObj,
                   condL, uid, eligible, stats, cond, scond, tmp, sconn, ret,
                   goVars, ghostVars>>

\* comm.CloseIgnore(closer); return   (lines 357-358 and 368-369)
CloseCloser(t) ==
    /\ pc[t] = "closer"
    /\ closerCloses' = [closerCloses EXCEPT ![t] = @ + 1]
    /\ pc' = [pc EXCEPT ![t] = "done"]
    /\ UNCHANGED <<cfgVars, auxVars, tableVars, listVars, connVars, statsObj,
                   condL, kind, natKey, uid, eligible, stats, cond, scond,
                   tmp, sconn, ret, goVars, dials, natDeleted, installs,
                   atClose>>

\* iCond, loaded := t.lockTable.LoadOrStore(natKey, sync.NewCond(...))
NatLoadOrStore(t) ==
    /\ pc[t] = "natLoadOrStore"
    /\ IF lockTable.nat[natKey[t]] # None
       THEN /\ cond' = [cond EXCEPT ![t] = lockTable.nat[natKey[t]]]
            /\ pc' = [pc EXCEPT ![t] = "natLock"]
            /\ UNCHANGED lockTable
       ELSE /\ lockTable' = [lockTable EXCEPT !.nat[natKey[t]] = CondNat(t)]
            /\ cond' = [cond EXCEPT ![t] = CondNat(t)]
            /\ pc' = [pc EXCEPT ![t] = IF kind[t] = "udp" THEN "udpUid"
                                                          ELSE "pingRoute"]
    /\ UNCHANGED <<cfgVars, auxVars, udpTable, appStats, listVars, connVars,
                   statsObj, condL, kind, natKey, uid, eligible, stats, scond,
                   tmp, sconn, ret, goVars, ghostVars>>

\* cond.L.Lock()
NatLock(t) ==
    /\ pc[t] = "natLock"
    /\ condL[cond[t]] = None
    /\ condL' = [condL EXCEPT ![cond[t]] = t]
    /\ pc' = [pc EXCEPT ![t] = "natWait"]
    /\ UNCHANGED <<cfgVars, auxVars, tableVars, listVars, connVars, statsObj,
                   kind, natKey, uid, eligible, stats, cond, scond, tmp,
                   sconn, ret, goVars, ghostVars>>

\* cond.Wait(): joins the notify list and unlocks cond.L.
NatWait(t) ==
    /\ pc[t] = "natWait"
    /\ condL' = [condL EXCEPT ![cond[t]] = None]
    /\ pc' = [pc EXCEPT ![t] = "natWaiting"]
    /\ UNCHANGED <<cfgVars, auxVars, tableVars, listVars, connVars, statsObj,
                   kind, natKey, uid, eligible, stats, cond, scond, tmp,
                   sconn, ret, goVars, ghostVars>>

\* cond.Wait() returning: cond.L is locked again; sendTo() follows.
NatWoken(t) ==
    /\ pc[t] = "natWoken"
    /\ condL[cond[t]] = None
    /\ condL' = [condL EXCEPT ![cond[t]] = t]
    /\ pc' = [pc EXCEPT ![t] = "retryLoad"]
    /\ UNCHANGED <<cfgVars, auxVars, tableVars, listVars, connVars, statsObj,
                   kind, natKey, uid, eligible, stats, cond, scond, tmp,
                   sconn, ret, goVars, ghostVars>>

\* cond.L.Unlock(); NewPingPacket then returns true
NatUnlock(t) ==
    /\ pc[t] = "natUnlock"
    /\ condL' = [condL EXCEPT ![cond[t]] = None]
    /\ pc' = [pc EXCEPT ![t] = IF kind[t] = "udp" THEN "closer" ELSE "done"]
    /\ ret' = IF kind[t] = "ping" THEN [ret EXCEPT ![t] = "true"] ELSE ret
    /\ UNCHANGED <<cfgVars, auxVars, tableVars, listVars, connVars, statsObj,
                   kind, natKey, uid, eligible, stats, cond, scond, tmp,
                   sconn, goVars, ghostVars>>

(* ---------------- NewPacket, the creator: lines 373-514 --------------- *)

\* inbound, isDns, the uid block (lines 373-421)
UdpUid(t) ==
    /\ pc[t] = "udpUid"
    /\ \E isDns \in BOOLEAN, d \in DumpUidOutcomes :
        LET el == trafficStats /\ ~d.self /\ ~isDns IN
        /\ eligible' = [eligible EXCEPT ![t] = el]
        /\ uid' = [uid EXCEPT ![t] = IF el THEN d.uid ELSE 0]
    /\ pc' = [pc EXCEPT ![t] = "udpDial"]
    /\ UNCHANGED <<cfgVars, auxVars, tableVars, listVars, connVars, statsObj,
                   condL, kind, natKey, stats, cond, scond, tmp, sconn, ret,
                   goVars, ghostVars>>

\* conn, err := t.v2ray.dialUDP(ctx, destination, time.Minute*5);
\* on an error: log, return
UdpDial(t) ==
    /\ pc[t] = "udpDial"
    /\ dials' = [dials EXCEPT ![natKey[t]] = @ + 1]
    /\ \E ok \in BOOLEAN :
        pc' = [pc EXCEPT ![t] = IF ~ok THEN "done"
                                ELSE IF eligible[t] THEN "statsLoad"
                                ELSE "register"]
    /\ UNCHANGED <<cfgVars, auxVars, tableVars, listVars, connVars, statsObj,
                   condL, kind, natKey, uid, eligible, stats, cond, scond,
                   tmp, sconn, ret, goVars, natDeleted, installs,
                   closerCloses, atClose>>

\* t.udpTable.Store(natKey, conn)
NatStore(t) ==
    /\ pc[t] = "natStore"
    /\ udpTable' = [udpTable EXCEPT ![natKey[t]] = t]
    /\ pc' = [pc EXCEPT ![t] = "goSend"]
    /\ UNCHANGED <<cfgVars, auxVars, appStats, lockTable, listVars, connVars,
                   statsObj, condL, kind, natKey, uid, eligible, stats, cond,
                   scond, tmp, sconn, ret, goVars, ghostVars>>

\* go sendTo()
GoSend(t) ==
    /\ pc[t] = "goSend"
    /\ apc' = [apc EXCEPT ![t] = "load"]
    /\ pc' = [pc EXCEPT ![t] = IF kind[t] = "udp" THEN "lockDelete"
                                                  ELSE "goPump"]
    /\ UNCHANGED <<cfgVars, auxVars, tableVars, listVars, connVars, statsObj,
                   condL, kind, natKey, uid, eligible, stats, cond, scond,
                   tmp, sconn, ret, aconn, pump, ghostVars>>

\* t.lockTable.Delete(natKey)   (line 487; deferred at line 554)
LockDelete(t) ==
    /\ pc[t] = "lockDelete"
    /\ lockTable' = [lockTable EXCEPT !.nat[natKey[t]] = None]
    /\ pc' = [pc EXCEPT ![t] = "lockBroadcast"]
    /\ UNCHANGED <<cfgVars, auxVars, udpTable, appStats, listVars, connVars,
                   statsObj, condL, kind, natKey, uid, eligible, stats, cond,
                   scond, tmp, sconn, ret, goVars, ghostVars>>

\* cond.Broadcast()   (line 488, then the pump loop; deferred at line 555)
LockBroadcast(t) ==
    /\ pc[t] = "lockBroadcast"
    /\ pc' = Broadcast(cond[t], [pc EXCEPT ![t] = IF kind[t] = "udp"
                                                  THEN "udpPump"
                                                  ELSE "done"])
    /\ cond' = [cond EXCEPT ![t] = None]
    /\ pump' = IF kind[t] = "udp" THEN [pump EXCEPT ![t] = "read"] ELSE pump
    /\ UNCHANGED <<cfgVars, auxVars, tableVars, listVars, connVars, statsObj,
                   condL, kind, natKey, uid, eligible, stats, scond, tmp,
                   sconn, ret, apc, aconn, ghostVars>>

(* ------------ NewPingPacket, the creator: lines 553-619 --------------- *)

\* PickRoute and GetHandler, or the default outbound (lines 568-584);
\* `return false` runs the deferred Delete and Broadcast.
PingRoute(t) ==
    /\ pc[t] = "pingRoute"
    /\ \E routed \in BOOLEAN, found \in BOOLEAN :
        LET handler == IF routed THEN found ELSE defaultOutboundForPing IN
        /\ pc' = [pc EXCEPT ![t] = IF handler THEN "pingHandle"
                                              ELSE "lockDelete"]
        /\ ret' = [ret EXCEPT ![t] = IF handler THEN "none" ELSE "false"]
    /\ UNCHANGED <<cfgVars, auxVars, tableVars, listVars, connVars, statsObj,
                   condL, kind, natKey, uid, eligible, stats, cond, scond,
                   tmp, sconn, goVars, ghostVars>>

\* conn := t.v2ray.handleUDP(ctx, handler, destination, time.Second*30)
PingHandle(t) ==
    /\ pc[t] = "pingHandle"
    /\ dials' = [dials EXCEPT ![natKey[t]] = @ + 1]
    /\ pc' = [pc EXCEPT ![t] = "register"]
    /\ UNCHANGED <<cfgVars, auxVars, tableVars, listVars, connVars, statsObj,
                   condL, kind, natKey, uid, eligible, stats, cond, scond,
                   tmp, sconn, ret, goVars, natDeleted, installs,
                   closerCloses, atClose>>

\* go func() { the pump }(); return true
GoPump(t) ==
    /\ pc[t] = "goPump"
    /\ pump' = [pump EXCEPT ![t] = "read"]
    /\ ret' = [ret EXCEPT ![t] = "true"]
    /\ pc' = [pc EXCEPT ![t] = "lockDelete"]
    /\ UNCHANGED <<cfgVars, auxVars, tableVars, listVars, connVars, statsObj,
                   condL, kind, natKey, uid, eligible, stats, cond, scond,
                   tmp, sconn, apc, aconn, ghostVars>>

(* ------- the reverse-path pump: lines 490-513 (UDP), 596-616 (ping) --- *)

\* One turn of the loop: conn.readFrom() returns a datagram and writeBack
\* delivers it.
PumpTurn(t) ==
    /\ pump[t] = "read"
    /\ ~Closed(t)
    /\ UNCHANGED vars

\* PumpReadClosed with `continue` in the place of `break`.
PumpReadClosedGoesOn(t) ==
    /\ pump[t] = "read"
    /\ Closed(t)
    /\ UNCHANGED vars

\* conn.readFrom() fails because conn is closed: break
PumpReadClosed(t) ==
    /\ pump[t] = "read"
    /\ Closed(t)
    /\ pump' = [pump EXCEPT ![t] = "closeConn"]
    /\ UNCHANGED <<cfgVars, auxVars, tableVars, listVars, connVars, statsObj,
                   condL, taskVars, apc, aconn, ghostVars>>

\* conn.readFrom() fails on an open conn (idle timeout, I/O error), or
\* writeBack fails: break
PumpBreaks(t) ==
    /\ pump[t] = "read"
    /\ ~Closed(t)
    /\ pump' = [pump EXCEPT ![t] = "closeConn"]
    /\ UNCHANGED <<cfgVars, auxVars, tableVars, listVars, connVars, statsObj,
                   condL, taskVars, apc, aconn, ghostVars>>

\* comm.CloseIgnore(conn, ...): conn.Close()
PumpCloseConn(t) ==
    /\ pump[t] = "closeConn"
    /\ closes' = [closes EXCEPT ![t].handler = @ + 1]
    /\ pump' = [pump EXCEPT ![t] = IF kind[t] = "udp" THEN "closeCloser"
                                                      ELSE "natDelete"]
    /\ UNCHANGED <<cfgVars, auxVars, tableVars, listVars, wlog, statsObj,
                   condL, taskVars, apc, aconn, ghostVars>>

\* comm.CloseIgnore(..., closer): closer.Close()   (NewPacket only)
PumpCloseCloser(t) ==
    /\ pump[t] = "closeCloser"
    /\ closerCloses' = [closerCloses EXCEPT ![t] = @ + 1]
    /\ pump' = [pump EXCEPT ![t] = "natDelete"]
    /\ UNCHANGED <<cfgVars, auxVars, tableVars, listVars, connVars, statsObj,
                   condL, taskVars, apc, aconn, dials, natDeleted, installs,
                   atClose>>

\* PumpNatDelete with the Delete left out: the pump goes on to deregister.
PumpNatDeleteLeftOut(t) ==
    /\ pump[t] = "natDelete"
    /\ pump' = [pump EXCEPT ![t] = "remove"]
    /\ UNCHANGED <<cfgVars, auxVars, tableVars, listVars, connVars, statsObj,
                   condL, taskVars, apc, aconn, ghostVars>>

\* t.udpTable.Delete(natKey)
PumpNatDelete(t) ==
    /\ pump[t] = "natDelete"
    /\ udpTable' = [udpTable EXCEPT ![natKey[t]] = None]
    /\ natDeleted' = [natDeleted EXCEPT ![natKey[t]] = TRUE]
    /\ pump' = [pump EXCEPT ![t] = "remove"]
    /\ UNCHANGED <<cfgVars, auxVars, appStats, lockTable, listVars, connVars,
                   statsObj, condL, taskVars, apc, aconn, dials, installs,
                   closerCloses, atClose>>

\* connectionsLock.Lock(); connections.Remove(element); Unlock();
\* NewPacket then returns.
PumpRemove(t) ==
    /\ pump[t] = "remove"
    /\ connectionsLock = "free"
    /\ connections' = RemoveElement(connections, t)
    /\ pump' = [pump EXCEPT ![t] = "exit"]
    /\ pc' = IF kind[t] = "udp" THEN [pc EXCEPT ![t] = AfterReturn(t)] ELSE pc
    /\ UNCHANGED <<cfgVars, auxVars, tableVars, connectionsLock, closePc,
                   closeItem, connVars, statsObj, condL, kind, natKey, uid,
                   eligible, stats, cond, scond, tmp, sconn, ret, apc, aconn,
                   ghostVars>>

(* --------------------------- specification ---------------------------- *)

TaskStep(t) ==
    \/ NewConnection(t) \/ NewPacket(t) \/ NewPingPacket(t)
    \/ StatsLoad(t) \/ StatsLoadOrStore(t) \/ StatsLock(t) \/ StatsWait(t)
    \/ StatsWoken(t) \/ StatsReload(t) \/ StatsUnlock(t) \/ StatsStore(t)
    \/ StatsDelete(t) \/ StatsBroadcast(t) \/ StatsAdd(t)
    \/ StatsClear(t) \/ DeferAdd(t) \/ DeferLoad(t) \/ DeferStamp(t)
    \/ Register(t) \/ TcpDispatch(t) \/ TcpCopyClosed(t) \/ TcpCopyEnds(t)
    \/ TcpClose(t) \/ TcpRemove(t)
    \/ SendLoad(t) \/ SendWrite(t) \/ SendClose(t) \/ CloseCloser(t)
    \/ NatLoadOrStore(t) \/ NatLock(t) \/ NatWait(t) \/ NatWoken(t)
    \/ NatUnlock(t) \/ UdpUid(t) \/ UdpDial(t) \/ NatStore(t) \/ GoSend(t)
    \/ LockDelete(t) \/ LockBroadcast(t) \/ PingRoute(t) \/ PingHandle(t)
    \/ GoPump(t)

GoStep(t) ==
    \/ GoSendLoad(t) \/ GoSendWrite(t) \/ GoSendClose(t)
    \/ PumpTurn(t) \/ PumpReadClosed(t) \/ PumpBreaks(t)
    \/ PumpCloseConn(t) \/ PumpCloseCloser(t)
    \/ PumpNatDelete(t) \/ PumpRemove(t)

Next ==
    \/ \E t \in Tasks : TaskStep(t)
    \/ \E t \in Tasks : GoStep(t)
    \/ CloseBegin
    \/ CloseItem
    \/ CloseEnd

Spec == Init /\ [][Next]_vars


(* ------------- the uid block alone: lines 226-252, 385-421 ------------ *)

\* Every setting of the two flags, and every answer of DumpUid.
InitUid ==
    /\ trafficStats \in BOOLEAN
    /\ dumpUid \in BOOLEAN
    /\ defaultOutboundForPing = FALSE
    /\ InitFlow
    /\ InitDialIdle
    /\ InitXzIdle
    /\ InitBytesIdle
    /\ dumpU \in DumpedUids
    /\ dumpErr \in BOOLEAN
    /\ uidHandler = "none"
    /\ inboundUid = 0

\* NewConnection: var uid uint16 ... inbound.Uid = uint32(uid)
UidBlockTcp ==
    /\ uidHandler = "none"
    /\ uidHandler' = "tcp"
    /\ inboundUid' =
         UidBlock(dumpUid \/ trafficStats, dumpErr, dumpU).inboundUid
    /\ UNCHANGED <<cfgVars, flowVars, dumpU, dumpErr, dialVars, xzVars,
                 byteVars>>

\* NewPacket: var uid uint16 ... inbound.Uid = uint32(uid)
UidBlockUdp ==
    /\ uidHandler = "none"
    /\ uidHandler' = "udp"
    /\ inboundUid' =
         UidBlock(dumpUid \/ trafficStats, dumpErr, dumpU).inboundUid
    /\ UNCHANGED <<cfgVars, flowVars, dumpU, dumpErr, dialVars, xzVars,
                 byteVars>>

NextUid ==
    \/ UidBlockTcp
    \/ UidBlockUdp

SpecUid == InitUid /\ [][NextUid]_vars

(* ------------- protectedDialer: part_000, lines 77-207 ---------------- *)

\* dial returns (c, e) to Dial: `conn, err = dialer.dial(...)`, and the
\* loop goes to its next turn.
AttemptReturns(c, e) ==
    /\ dConn' = c
    /\ dErr' = e
    /\ dLog' = Append(dLog, [ip |-> dIps[dI], conn |-> c, err |-> e])
    /\ dI' = dI + 1
    /\ dFd' = None
    /\ dLocal' = None
    /\ dPc' = "loop"

\* Dial, up to the loop: the destination check, the resolver (lines 83-103).
\* A destination that is not a domain is one address.
Dial ==
    /\ dPc = "idle"
    /\ \E valid \in BOOLEAN, net \in {"tcp", "udp"}, domain \in BOOLEAN,
          rerr \in BOOLEAN, ips \in IpLists :
        /\ domain \/ Len(ips) = 1
        /\ dNet' = net
        /\ IF ~valid
           THEN /\ dErr' = "invalid destination"
                /\ dPc' = "done"
                /\ UNCHANGED <<dIps, dI>>
           ELSE IF domain /\ rerr
           THEN /\ dErr' = "resolver"
                /\ dPc' = "done"
                /\ UNCHANGED <<dIps, dI>>
           ELSE IF domain /\ Len(ips) = 0
           THEN /\ dErr' = "empty response"
                /\ dPc' = "done"
                /\ UNCHANGED <<dIps, dI>>
           ELSE /\ dIps' = ips
                /\ dI' = 1
                /\ dPc' = "loop"
                /\ UNCHANGED dErr
    /\ UNCHANGED <<cfgVars, uidVars, xzVars, byteVars, flowVars, dFd, dLocal,
                   dConn, dLog, fds>>

\* for i, ip := range ips { if i > 0 { if err == nil { break } ... } ... };
\* return conn, err   (lines 105-118; i counts from 0 there, dI from 1)
DialLoop ==
    /\ dPc = "loop"
    /\ dPc' = IF dI > Len(dIps) \/ (dI > 1 /\ dErr = "nil") THEN "done"
              ELSE "getFd"
    /\ UNCHANGED <<cfgVars, uidVars, xzVars, byteVars, flowVars, dNet, dIps,
                   dI, dFd, dLocal, dConn, dErr, dLog, fds>>

\* fd, err := getFd(destination.Network, ipv6)   (lines 126-129, 189-207)
DialGetFd ==
    /\ dPc = "getFd"
    /\ \E ok \in BOOLEAN :
        IF ok
        THEN /\ fds' = [fds EXCEPT ![dI].state = "open"]
             /\ dFd' = dI
             /\ dPc' = "protect"
             /\ UNCHANGED <<dI, dLocal, dConn, dErr, dLog>>
        ELSE /\ AttemptReturns(None, "socket")
             /\ UNCHANGED fds
    /\ UNCHANGED <<cfgVars, uidVars, xzVars, byteVars, flowVars, dNet, dIps>>

\* DialProtect with the answer of the hook ignored.
DialProtectIgnored ==
    /\ dPc = "protect"
    /\ \E ok \in BOOLEAN :
        /\ fds' = [fds EXCEPT ![dFd].protect = IF ok THEN "true" ELSE "false"]
        /\ dPc' = "connect"
    /\ UNCHANGED <<cfgVars, uidVars, xzVars, byteVars, flowVars, dNet, dIps,
                   dI, dFd, dLocal, dConn, dErr, dLog>>

\* if !dialer.protector.Protect(int32(fd)) { return nil, "protect failed" };
\* ApplySockopt   (lines 131-137)
DialProtect ==
    /\ dPc = "protect"
    /\ \E ok \in BOOLEAN :
        /\ fds' = [fds EXCEPT ![dFd].protect = IF ok THEN "true" ELSE "false"]
        /\ IF ok
           THEN /\ dPc' = "connect"
                /\ UNCHANGED <<dI, dFd, dLocal, dConn, dErr, dLog>>
           ELSE AttemptReturns(None, "protect failed")
    /\ UNCHANGED <<cfgVars, uidVars, xzVars, byteVars, flowVars, dNet, dIps>>

\* err = unix.Connect(fd, sockaddr); if err != nil { return nil, err }
DialConnect ==
    /\ dPc = "connect"
    /\ \E ok \in BOOLEAN :
        IF ok
        THEN /\ fds' = [fds EXCEPT ![dFd].connect = "ok"]
             /\ dPc' = "wrap"
             /\ UNCHANGED <<dI, dFd, dLocal, dConn, dErr, dLog>>
        ELSE /\ fds' = [fds EXCEPT ![dFd].connect = "failed"]
             /\ AttemptReturns(None, "connect")
    /\ UNCHANGED <<cfgVars, uidVars, xzVars, byteVars, flowVars, dNet, dIps>>

\* file := os.NewFile(fd) (never nil: fd >= 0) and the switch, lines
\* 159-183.  net.FileConn: an error returns (nil, err).  In the UDP case
\* `pc, err := net.FilePacketConn(file)` declares an err of its own: when
\* it fails conn stays nil and the err tested at line 181 is still the nil
\* of unix.Connect, so dial goes on to line 185.  ResolveUDPAddr of a
\* literal address does not fail.  The conn is named by its fd.
DialWrap ==
    /\ dPc = "wrap"
    /\ \E ok \in BOOLEAN :
        IF ok
        THEN /\ dLocal' = dFd
             /\ dPc' = "closeFile"
             /\ UNCHANGED <<dI, dFd, dConn, dErr, dLog>>
        ELSE IF dNet = "udp"
        THEN /\ dLocal' = None
             /\ dPc' = "closeFile"
             /\ UNCHANGED <<dI, dFd, dConn, dErr, dLog>>
        ELSE AttemptReturns(None, "file conn")
    /\ UNCHANGED <<cfgVars, uidVars, xzVars, byteVars, flowVars, dNet, dIps,
                   fds>>

\* comm.CloseIgnore(file); return conn, nil   (lines 185-186; the conn
\* holds a duplicate of the fd)
DialCloseFile ==
    /\ dPc = "closeFile"
    /\ fds' = [fds EXCEPT ![dFd].state = "closed"]
    /\ AttemptReturns(dLocal, "nil")
    /\ UNCHANGED <<cfgVars, uidVars, xzVars, byteVars, flowVars, dNet, dIps>>

\* The dialer before a call; Tun2ray is not involved.
InitDial ==
    /\ trafficStats = FALSE
    /\ dumpUid = FALSE
    /\ defaultOutboundForPing = FALSE
    /\ InitFlow
    /\ InitUidIdle
    /\ InitDialIdle
    /\ InitXzIdle
    /\ InitBytesIdle

NextDial ==
    \/ Dial
    \/ DialLoop
    \/ DialGetFd
    \/ DialProtect
    \/ DialConnect
    \/ DialWrap
    \/ DialCloseFile

SpecDial == InitDial /\ [][NextDial]_vars

(* ------------------- Unxz, unxz: part_000, lines 17-43 ---------------- *)

\* The call.  Unxz(archive, path) decompresses into path; unxz(path) calls
\* Unxz(path, path+".tmp").  The archive is a whole xz stream ("xz"), a
\* damaged one ("bad") or missing; the other files are missing or hold
\* earlier content ("old").
XzCall ==
    /\ xPc = "idle"
    /\ \E fn \in {"Unxz", "unxz"}, a \in {"xz", "bad", "absent"},
          t \in {"old", "absent"}, d \in {"old", "absent"} :
        /\ xFn' = fn
        /\ fs' = [f \in Files |-> IF f = "geo.xz" THEN a
                                  ELSE IF f = "geo.xz.tmp" THEN t ELSE d]
        /\ xArchive' = "geo.xz"
        /\ xPath' = IF fn = "unxz" THEN TmpOf("geo.xz") ELSE "geo.dat"
        /\ xPrior' = IF fn = "unxz" THEN a ELSE d
    /\ xPc' = "open"
    /\ UNCHANGED <<cfgVars, uidVars, dialVars, byteVars, flowVars, xErr>>

\* i, err := os.Open(archive); if err != nil { return err }
XzOpen ==
    /\ xPc = "open"
    /\ \E ok \in (IF fs[xArchive] = "absent" THEN {FALSE} ELSE BOOLEAN) :
        IF ok
        THEN xPc' = "reader" /\ UNCHANGED xErr
        ELSE xPc' = "done" /\ xErr' = "open"
    /\ UNCHANGED <<cfgVars, uidVars, dialVars, byteVars, flowVars, xFn,
                   xArchive, xPath, fs, xPrior>>

\* r, err := xz.NewReader(i): it reads the stream header
XzNewReader ==
    /\ xPc = "reader"
    /\ \E ok \in (IF fs[xArchive] = "xz" THEN {TRUE} ELSE BOOLEAN) :
        IF ok
        THEN xPc' = "create" /\ UNCHANGED xErr
        ELSE xPc' = "done" /\ xErr' = "header"
    /\ UNCHANGED <<cfgVars, uidVars, dialVars, byteVars, flowVars, xFn,
                   xArchive, xPath, fs, xPrior>>

\* o, err := os.Create(path): path is made, or truncated when it exists
XzCreate ==
    /\ xPc = "create"
    /\ \E ok \in BOOLEAN :
        IF ok
        THEN /\ fs' = [fs EXCEPT ![xPath] = "empty"]
             /\ xPc' = "copy"
             /\ UNCHANGED xErr
        ELSE /\ xPc' = "done"
             /\ xErr' = "create"
             /\ UNCHANGED fs
    /\ UNCHANGED <<cfgVars, uidVars, dialVars, byteVars, flowVars, xFn,
                   xArchive, xPath, xPrior>>

\* _, err = io.Copy(o, r); comm.CloseIgnore(i, o); return err.  A damaged
\* stream fails somewhere, with nothing or a part of the payload written.
XzCopy ==
    /\ xPc = "copy"
    /\ \E ok \in (IF fs[xArchive] = "xz" THEN BOOLEAN ELSE {FALSE}),
          got \in {"empty", "part"} :
        IF ok
        THEN /\ fs' = [fs EXCEPT ![xPath] = "payload"]
             /\ xPc' = IF xFn = "unxz" THEN "rename" ELSE "done"
             /\ UNCHANGED xErr
        ELSE /\ fs' = [fs EXCEPT ![xPath] = got]
             /\ xPc' = "done"
             /\ xErr' = "copy"
    /\ UNCHANGED <<cfgVars, uidVars, dialVars, byteVars, flowVars, xFn,
                   xArchive, xPath, xPrior>>

\* return os.Rename(path+".tmp", path)   (unxz only)
XzRename ==
    /\ xPc = "rename"
    /\ \E ok \in BOOLEAN :
        IF ok
        THEN /\ fs' = [fs EXCEPT ![xArchive] = fs[xPath], ![xPath] = "absent"]
             /\ UNCHANGED xErr
        ELSE /\ xErr' = "rename"
             /\ UNCHANGED fs
    /\ xPc' = "done"
    /\ UNCHANGED <<cfgVars, uidVars, dialVars, byteVars, flowVars, xFn,
                   xArchive, xPath, xPrior>>

\* Before a call of Unxz or unxz; Tun2ray is not involved.
InitXz ==
    /\ trafficStats = FALSE
    /\ dumpUid = FALSE
    /\ defaultOutboundForPing = FALSE
    /\ InitFlow
    /\ InitUidIdle
    /\ InitDialIdle
    /\ InitXzIdle
    /\ InitBytesIdle

NextXz ==
    \/ XzCall
    \/ XzOpen
    \/ XzNewReader
    \/ XzCreate
    \/ XzCopy
    \/ XzRename

SpecXz == InitXz /\ [][NextXz]_vars

(* ---- the byte counters of a TCP flow: part_001, lines 270-328 -------- *)

\* One Write (up) or Read (down) of n = 1 byte on the conn of a flow
\* during its copy.  A flow that counts has conn wrapped at line 301 in
\* statsConn{conn, &stats.uplink, &stats.downlink}, whose Write adds n to
\* *uplink and whose Read adds n to *downlink: the counters of the object
\* the flow's stats points to.
TcpTransfer(t) ==
    /\ pc[t] = "tcpCopy"
    /\ ~Closed(t)
    /\ \E dir \in {"up", "down"} :
        IF stats[t] = None
        THEN UNCHANGED <<statsObj, flowBytes>>
        ELSE IF dir = "up"
        THEN /\ flowBytes[uid[t]].up < MaxBytes
             /\ statsObj' = [statsObj EXCEPT ![stats[t]].uplink = @ + 1]
             /\ flowBytes' = [flowBytes EXCEPT ![uid[t]].up = @ + 1]
        ELSE /\ flowBytes[uid[t]].down < MaxBytes
             /\ statsObj' = [statsObj EXCEPT ![stats[t]].downlink = @ + 1]
             /\ flowBytes' = [flowBytes EXCEPT ![uid[t]].down = @ + 1]
    /\ UNCHANGED <<cfgVars, uidVars, dialVars, xzVars, tableVars, listVars,
                   connVars, condL, taskVars, goVars, ghostVars>>

\* A Tun2ray with trafficStats set, before any flow.
InitBytes ==
    /\ trafficStats = TRUE
    /\ dumpUid = TRUE
    /\ defaultOutboundForPing = FALSE
    /\ InitFlow
    /\ InitUidIdle
    /\ InitDialIdle
    /\ InitXzIdle
    /\ InitBytesIdle

\* The steps of NewConnection, statistics and bytes included.
TcpStep(t) ==
    \/ NewConnection(t)
    \/ StatsLoad(t) \/ StatsLoadOrStore(t) \/ StatsLock(t) \/ StatsWait(t)
    \/ StatsWoken(t) \/ StatsReload(t) \/ StatsUnlock(t) \/ StatsStore(t)
    \/ StatsDelete(t) \/ StatsBroadcast(t) \/ StatsAdd(t)
    \/ StatsClear(t) \/ DeferAdd(t) \/ DeferLoad(t) \/ DeferStamp(t)
    \/ Register(t) \/ TcpDispatch(t) \/ TcpTransfer(t) \/ TcpCopyEnds(t)
    \/ TcpClose(t) \/ TcpRemove(t)

NextBytes == \E t \in Tasks : TcpStep(t)

SpecBytes == InitBytes /\ [][NextBytes]_vars

(* ---- NewPacket and Close() under a fair scheduler: lines 200-211, ---- *)
(* ---- 335-514 --------------------------------------------------------- *)

\* A Tun2ray without traffic statistics, before any flow.
InitUdp ==
    /\ trafficStats = FALSE
    /\ dumpUid = FALSE
    /\ defaultOutboundForPing = FALSE
    /\ InitFlow
    /\ InitUidIdle
    /\ InitDialIdle
    /\ InitXzIdle
    /\ InitBytesIdle

\* The steps of a NewPacket call and of its goroutine that the Go scheduler
\* runs once they can run: every step but the arrival of the call and the
\* answers of the network (a datagram, a read error on an open conn).
UdpStep(t) ==
    \/ SendLoad(t) \/ SendWrite(t) \/ SendClose(t) \/ CloseCloser(t)
    \/ NatLoadOrStore(t) \/ NatLock(t) \/ NatWait(t) \/ NatWoken(t)
    \/ NatUnlock(t) \/ UdpUid(t) \/ UdpDial(t) \/ Register(t) \/ NatStore(t)
    \/ GoSend(t) \/ LockDelete(t) \/ LockBroadcast(t)
    \/ GoSendLoad(t) \/ GoSendWrite(t) \/ GoSendClose(t)
    \/ PumpReadClosed(t) \/ PumpCloseConn(t) \/ PumpCloseCloser(t)
    \/ PumpNatDelete(t) \/ PumpRemove(t)

\* What the scheduler owes: a goroutine that can run does run.  Close()
\* once called goes through the list.
UdpProgress ==
    \/ \E t \in Tasks : UdpStep(t)
    \/ CloseItem
    \/ CloseEnd

NextUdp ==
    \/ \E t \in Tasks : NewPacket(t)
    \/ \E t \in Tasks : UdpStep(t)
    \/ \E t \in Tasks : PumpTurn(t)
    \/ \E t \in Tasks : PumpBreaks(t)
    \/ CloseBegin
    \/ CloseItem
    \/ CloseEnd

SpecUdpFair == InitUdp /\ [][NextUdp]_vars /\ WF_vars(UdpProgress)

(* ------------------------------- claims ------------------------------- *)

\* No task, goroutine or Close() is at work.
Quiescent ==
    /\ \A t \in Tasks : /\ pc[t] \in {"idle", "done"}
                        /\ apc[t] \in {"none", "done"}
                        /\ pump[t] \in {"none", "exit"}
    /\ closePc \in {"idle", "done"}

TotalCloses(h) == closes[h].shutdown + closes[h].handler + closes[h].send

\* C1: for every uid, over every interleaving of the flow callbacks that
\* need its AppStats, one fresh appStats object at most is ever stored in
\* the appStats table and all the callers hold that same object.
C1_OneAppStatsPerUid ==
    \A u \in Uids :
        /\ installs[u] <= 1
        /\ \A t1, t2 \in Tasks :
            (/\ eligible[t1] /\ eligible[t2]
             /\ uid[t1] = u /\ uid[t2] = u
             /\ stats[t1] # None /\ stats[t2] # None)
            => stats[t1] = stats[t2]

\* C2: for every natKey of NewPacket, as long as no NAT entry of the key
\* has been deleted (the burst meets no entry, and the flow it makes has not
\* ended), dialUDP is called once at most for the key.
C2_OneDialPerNatKey ==
    \A k \in UdpKeys : ~natDeleted[k] => dials[k] <= 1

C4_RegistryEmptyAfterClose ==
    (closePc = "done" /\ Quiescent) => \A h \in atClose : ~InList(h)

\* A flow of stats object o is between two of the atomics that update o.
MidUpdate(o) ==
    \E t \in Tasks :
        /\ stats[t] = o
        /\ pc[t] \in {"statsDelete", "statsBroadcast", "statsAdd",
                      "statsClear", "deferLoad", "deferStamp"}

\* C5: for every installed AppStats, deactivateAt is non-zero if and only if
\* tcpConn + udpConn = 0, in every state where no flow of that AppStats is
\* between its counter update and its store to deactivateAt.
C5_DeactivateIffIdle ==
    \A u \in Uids :
        LET o == appStats[u] IN
        (o # None /\ ~MidUpdate(o)) =>
            (statsObj[o].deactivateAt # 0
                <=> statsObj[o].tcpConn + statsObj[o].udpConn = 0)

\* C6 as claimed: a natKey maps to a packet conn in udpTable if and only if
\* that conn is not closed and is in the connection list.
C6_NatIffLiveRegistered ==
    \A h \in Tasks :
        (kind[h] \in {"udp", "ping"} /\ dials[natKey[h]] > 0) =>
            (udpTable[natKey[h]] = h <=> (~Closed(h) /\ InList(h)))

\* C6 as amended: the conn a natKey maps to in udpTable is in the connection
\* list (it may be closed already, and a live conn in the list need not be
\* in udpTable).
C6_NatEntryRegistered ==
    \A k \in NatKeys : udpTable[k] # None => InList(udpTable[k])

\* C6, its case: an entry whose conn is closed and still in the list.
C6_Witness ==
    \E k \in NatKeys :
        /\ udpTable[k] # None
        /\ Closed(udpTable[k])
        /\ InList(udpTable[k])

\* Task t won LoadOrStore for its natKey and has not yet deleted the key.
NatCreating(t) ==
    /\ kind[t] \in {"udp", "ping"}
    /\ cond[t] = CondNat(t)
    /\ pc[t] \notin {"lockBroadcast", "done"}

\* Task t won LoadOrStore for its uid and has not yet deleted the key.
UidCreating(t) == pc[t] \in {"statsStore", "statsDelete"}

\* C7: a key is in lockTable if and only if exactly one creator of the key
\* is at work; no key stays once its creator has returned.
C7_LockTableIffCreator ==
    /\ \A k \in NatKeys :
        lockTable.nat[k] # None
            <=> Cardinality({t \in Tasks : NatCreating(t) /\ natKey[t] = k})
                    = 1
    /\ \A u \in Uids :
        lockTable.uid[u] # None
            <=> Cardinality({t \in Tasks : UidCreating(t) /\ uid[t] = u}) = 1

\* The place of payload p in the payloads delivered to conn h (0: none).
Place(h, p) ==
    IF \E i \in 1..Len(wlog[h]) : wlog[h][i] = p
    THEN CHOOSE i \in 1..Len(wlog[h]) : wlog[h][i] = p
    ELSE 0

\* C8: of two NewPacket calls of one source, the first the creator and the
\* second waiting on the creator's cond, both payloads are written to the
\* creator's conn, the creator's first, when both sends have ended and
\* nothing closed the conn.
C8_SubmissionOrder ==
    \A c, w \in Tasks :
        (/\ c # w /\ kind[c] = "udp" /\ kind[w] = "udp"
         /\ cond[w] = CondNat(c)
         /\ pc[w] = "done" /\ apc[c] = "done"
         /\ ~Closed(c) /\ udpTable[natKey[c]] = c)
        => (Place(c, c) > 0 /\ Place(c, w) > Place(c, c))

\* C9: when the creator of a ping natKey finds no handler (no route and no
\* default outbound, or a tag without handler) and returns false, no conn
\* is added to the list or to udpTable, and every call that waited on the
\* creator returns false too.
C9_NoRouteAllFalse ==
    \A c \in Tasks :
        (kind[c] = "ping" /\ ret[c] = "false") =>
            /\ ~InList(c)
            /\ udpTable[natKey[c]] # c
            /\ \A w \in Tasks :
                (w # c /\ cond[w] = CondNat(c) /\ pc[w] = "done")
                    => ret[w] = "false"

\* C10: when DumpUid returns u without error, inbound.Uid is 1000 when
\* u < 10000 and u otherwise, in the TCP and in the UDP handler.
C10_UidCollapse ==
    (uidHandler # "none" /\ (dumpUid \/ trafficStats) /\ ~dumpErr) =>
        inboundUid = IF dumpU < FirstAppUid THEN SystemUid ELSE dumpU

\* C11: Dial attempts the candidate addresses in resolver order; the first
\* attempt that gives a conn is the last one and Dial returns that conn with
\* a nil error; when no attempt gives a conn every address was attempted and
\* Dial returns nil and the error of the last attempt; an invalid
\* destination, a resolver error or an empty answer fails without attempt.
C11_DialOrder ==
    dPc = "done" =>
        LET n == Len(dLog) IN
        /\ n <= Len(dIps)
        /\ \A i \in 1..n : dLog[i].ip = dIps[i]
        /\ \A i \in 1..n : dLog[i].conn # None => i = n
        /\ IF \E i \in 1..n : dLog[i].conn # None
           THEN dConn = dLog[n].conn /\ dErr = "nil"
           ELSE /\ n = Len(dIps)
                /\ dConn = None
                /\ dErr # "nil"
                /\ n > 0 => dErr = dLog[n].err

\* C12: in every dial attempt Protect is called on the new fd before
\* unix.Connect is: connect is called only on an fd the hook answered true
\* for, and an attempt the hook answered false for fails with "protect
\* failed", without conn and without connect.
C12_ProtectBeforeConnect ==
    /\ \A f \in Fds :
        /\ fds[f].connect # "none" => fds[f].protect = "true"
        /\ fds[f].state # "none" /\ dFd # f => fds[f].protect # "none"
    /\ \A i \in 1..Len(dLog) :
        fds[i].protect = "false" =>
            /\ dLog[i].err = "protect failed"
            /\ dLog[i].conn = None
            /\ fds[i].connect = "none"

\* C12, its case: one attempt was refused by the hook and never connected,
\* another was protected and then connected.
C12_Witness ==
    \E f, g \in Fds :
        /\ fds[f].protect = "false" /\ fds[f].connect = "none"
        /\ fds[g].protect = "true" /\ fds[g].connect = "ok"

\* C20: when a dial attempt returned an error after its socket was made,
\* the socket is closed.
C20_FailedDialClosesFd ==
    \A i \in 1..Len(dLog) :
        (dLog[i].err # "nil" /\ fds[i].state # "none")
            => fds[i].state = "closed"

\* The path the call is to leave its result at: path of Unxz(archive,
\* path), path of unxz(path).
XzDestination == IF xFn = "unxz" THEN xArchive ELSE xPath

\* C15: Unxz(archive, path) and unxz(path) replace the content at their
\* destination path only by the whole payload, and a call that fails
\* leaves the content that was there.
C15_XzAtomic ==
    xPc # "idle" =>
        /\ fs[XzDestination] \in {xPrior, "payload"}
        /\ (xPc = "done" /\ xErr # "nil") => fs[XzDestination] = xPrior

\* C16: whenever NewConnection has returned, after the copy or after a
\* failed DispatchLink, the conn it registered is no longer in the list.
C16_TcpHandleRemoved ==
    \A t \in Tasks : (kind[t] = "tcp" /\ pc[t] = "done") => ~InList(t)

\* C19: panic("unexpected sync read failed") is never executed: a task
\* that lost LoadOrStore for its uid and woke from cond.Wait finds the
\* entry of the uid in the appStats table.
C19_PanicUnreachable == \A t \in Tasks : pc[t] # "panic"

\* C19, its case: a task that waited on the cond of its uid has woken and
\* read the entry again.
C19_Witness ==
    \E t \in Tasks :
        /\ pc[t] = "statsUnlock"
        /\ scond[t] # None /\ scond[t] # CondUid(t)
        /\ stats[t] = appStats[uid[t]]

\* C14: at the end of a run, for every uid, the uplink and downlink
\* counters of the AppStats the appStats table holds for the uid are the
\* numbers of bytes written and read on the flows of the uid that count.
C14_CountersAreSums ==
    (\A t \in Tasks : pc[t] = "done") =>
        \A u \in Uids :
            IF appStats[u] = None
            THEN flowBytes[u] = [up |-> 0, down |-> 0]
            ELSE /\ statsObj[appStats[u]].uplink = flowBytes[u].up
                 /\ statsObj[appStats[u]].downlink = flowBytes[u].down

\* C13: once Close() has run over a list that held a live flow, every flow
\* conn gets closed and every flow task (a pump, a caller of NewPacket still
\* in progress, its goroutines) ends.
C13_ShutdownTerminates ==
    (closePc = "done" /\ atClose # {}) ~>
        (/\ Quiescent
         /\ \A t \in Tasks : pump[t] # "none" => Closed(t))

\* C18: a task that lost LoadOrStore on lockTable and goes on to wait on the
\* cond it loaded is woken and returns.
C18_NoLostWakeup ==
    \A t \in Tasks : (pc[t] = "natLock") ~> (pc[t] = "done")

\* The teardown of the UDP flow of creator t has its cause: its conn is
\* closed (by a sendTo after a write error, or by Close()) or its pump has
\* left the loop (a read error, a writeBack error).
TeardownDue(t) ==
    /\ kind[t] = "udp"
    /\ \/ pump[t] = "closeConn"
       \/ Closed(t) /\ udpTable[natKey[t]] = t

\* The order of the teardown of creator t's UDP flow.
TeardownOrder(t) ==
    /\ pump[t] \in {"read", "closeConn", "closeCloser", "natDelete",
                    "remove"} => InList(t)
    /\ pump[t] \in {"closeCloser", "natDelete", "remove", "exit"}
         => closes[t].handler = 1
    /\ pump[t] \in {"natDelete", "remove", "exit"} => closerCloses[t] = 1
    /\ pump[t] \in {"remove", "exit"}
         => natDeleted[natKey[t]] /\ udpTable[natKey[t]] # t
    /\ pump[t] = "exit" => ~InList(t)

\* C17: once the conn of a UDP flow was closed by a sendTo, or its pump
\* met a read or writeBack error, the pump leaves the loop and ends; it
\* closes conn, then the closer, then deletes the NAT entry, and only then
\* takes the conn out of the list.
C17_UdpTeardown ==
    /\ [](\A t \in Tasks : kind[t] = "udp" => TeardownOrder(t))
    /\ \A t \in Tasks : TeardownDue(t) ~> (pump[t] = "exit")

\* C17, its case: a sendTo closed the conn after a write error and the
\* pump of the flow has ended.
C17_Witness ==
    \E t \in Tasks :
        /\ kind[t] = "udp"
        /\ closes[t].send > 0
        /\ pump[t] = "exit"

\* C21: a NewPacket call that has returned has closed its closer exactly
\* once, whichever way it returned: after the first sendTo, after waiting,
\* after a failed dialUDP, after its pump.
C21_CloserClosedOnce ==
    \A t \in Tasks : (kind[t] = "udp" /\ pc[t] = "done") => closerCloses[t] = 1

\* C22: the entry of a natKey in udpTable, once stored, is changed by one
\* step only: the udpTable.Delete of the pump of the conn the entry maps
\* to.  No other task deletes it or stores over it.
C22_OnlyOwnerRemoves ==
    [][\A k \in NatKeys :
          (udpTable[k] # None /\ udpTable'[k] # udpTable[k]) =>
              /\ udpTable'[k] = None
              /\ pump[udpTable[k]] = "natDelete"
              /\ pump'[udpTable[k]] = "remove"]_vars

=============================================================================
